---- MODULE Spec2Model ----
(***************************************************************************)
(* Model of src/shift_pdf_to_gcal.py: the text normalizer, the 3-line      *)
(* block scan of parse_shifts_from_text, its de-duplication, and the       *)
(* day-sorted projection written by write_gcal_min_csv.                    *)
(*                                                                         *)
(* A string is a sequence of characters.  A character is a one-character   *)
(* TLA+ string, or, for the non-ASCII ones, a name:                        *)
(*   FW0..FW9 full-width digits, FWCOLON U+FF1A, FWHYPHEN U+FF0D,          *)
(*   CHOON U+30FC (katakana long-vowel mark), WAVEDASH U+301C,             *)
(*   FWTILDE U+FF5E, IDSP U+3000 (ideographic space), TAB, NL,             *)
(*   yama gata ta naka ma ri: the kanji / kana of the person names.        *)
(***************************************************************************)
EXTENDS Integers, Sequences, FiniteSets, TLC

Digits == {"0", "1", "2", "3", "4", "5", "6", "7", "8", "9"}

FWDigits == {"FW0", "FW1", "FW2", "FW3", "FW4", "FW5", "FW6", "FW7", "FW8", "FW9"}

DigitVal ==
  ("0" :> 0) @@ ("1" :> 1) @@ ("2" :> 2) @@ ("3" :> 3) @@ ("4" :> 4) @@
  ("5" :> 5) @@ ("6" :> 6) @@ ("7" :> 7) @@ ("8" :> 8) @@ ("9" :> 9) @@
  ("FW0" :> 0) @@ ("FW1" :> 1) @@ ("FW2" :> 2) @@ ("FW3" :> 3) @@ ("FW4" :> 4) @@
  ("FW5" :> 5) @@ ("FW6" :> 6) @@ ("FW7" :> 7) @@ ("FW8" :> 8) @@ ("FW9" :> 9)

\* _Z2H_TABLE
Z2H_TABLE ==
  ("FW0" :> "0") @@ ("FW1" :> "1") @@ ("FW2" :> "2") @@ ("FW3" :> "3") @@
  ("FW4" :> "4") @@ ("FW5" :> "5") @@ ("FW6" :> "6") @@ ("FW7" :> "7") @@
  ("FW8" :> "8") @@ ("FW9" :> "9") @@
  ("FWCOLON" :> ":") @@
  ("FWHYPHEN" :> "-") @@ ("CHOON" :> "-") @@
  ("WAVEDASH" :> "~") @@ ("FWTILDE" :> "~") @@
  ("IDSP" :> " ")

\* the characters \s and str.strip() take as whitespace (within one line)
IsSpace(c) == c \in {" ", "TAB", "IDSP"}

\* \d of a str pattern: any Unicode decimal digit
IsDigit(c) == c \in Digits \cup FWDigits

\* s.translate(_Z2H_TABLE)
Translate(s) ==
  [k \in 1..Len(s) |-> IF s[k] \in DOMAIN Z2H_TABLE THEN Z2H_TABLE[s[k]] ELSE s[k]]

\* re.sub(r"\s+", " ", s): every maximal run of whitespace becomes one space
RECURSIVE Collapse(_)
Collapse(s) ==
  IF s = <<>> THEN <<>>
  ELSE IF IsSpace(Head(s))
       THEN IF Len(s) > 1 /\ IsSpace(s[2])
            THEN Collapse(Tail(s))
            ELSE <<" ">> \o Collapse(Tail(s))
       ELSE <<Head(s)>> \o Collapse(Tail(s))

RECURSIVE LStrip(_)
LStrip(s) ==
  IF s # <<>> /\ IsSpace(Head(s)) THEN LStrip(Tail(s)) ELSE s

RECURSIVE RStrip(_)
RStrip(s) ==
  IF s # <<>> /\ IsSpace(s[Len(s)]) THEN RStrip(SubSeq(s, 1, Len(s) - 1)) ELSE s

\* s.strip()
Strip(s) == RStrip(LStrip(s))

\* normalize without the final strip
normalizeNoStrip(s) == Collapse(Translate(s))

normalize(s) == Strip(Collapse(Translate(s)))

\* the position of the first character of s in set C, 0 when there is none
FirstIn(s, C) ==
  IF \E k \in 1..Len(s) : s[k] \in C
  THEN CHOOSE k \in 1..Len(s) : s[k] \in C /\ \A j \in 1..(k - 1) : s[j] \notin C
  ELSE 0

\* str.splitlines() on a text whose only line terminator is NL
RECURSIVE SplitLines(_)
SplitLines(text) ==
  IF text = <<>> THEN <<>>
  ELSE LET p == FirstIn(text, {"NL"})
       IN  IF p = 0 THEN <<text>>
           ELSE <<SubSeq(text, 1, p - 1)>> \o SplitLines(SubSeq(text, p + 1, Len(text)))

\* str.split(): the maximal runs of non-whitespace characters
RECURSIVE Split(_)
Split(str) ==
  LET t == LStrip(str)
      p == FirstIn(t, {" ", "TAB", "IDSP"})
  IN  IF t = <<>> THEN <<>>
      ELSE IF p = 0 THEN <<t>>
      ELSE <<SubSeq(t, 1, p - 1)>> \o Split(SubSeq(t, p + 1, Len(t)))

\* int(x) of a token of decimal digits
RECURSIVE ToInt(_)
ToInt(tok) ==
  IF tok = <<>> THEN 0
  ELSE 10 * ToInt(SubSeq(tok, 1, Len(tok) - 1)) + DigitVal[tok[Len(tok)]]

\* lines = [normalize(ln) for ln in text.splitlines() if normalize(ln)]
NormalizedLines(text) ==
  LET raw == SplitLines(text)
      norm == [k \in 1..Len(raw) |-> normalize(raw[k])]
  IN  SelectSeq(norm, LAMBDA ln : ln # <<>>)

\* (?:[1-9]|[12]\d|3[01]) at position p of s: the positions right after a match
DayTokEnds(s, p) ==
  {q \in {p + 1, p + 2} :
     /\ q <= Len(s) + 1
     /\ \/ q = p + 1 /\ s[p] \in (Digits \ {"0"})
        \/ q = p + 2 /\ s[p] \in {"1", "2"} /\ IsDigit(s[p + 1])
        \/ q = p + 2 /\ s[p] = "3" /\ s[p + 1] \in {"0", "1"}}

\* the rest of the day pattern from position p, cnt tokens matched so far
RECURSIVE HeaderFromStar(_, _, _)
HeaderFromStar(s, p, cnt) ==
  \E q \in DayTokEnds(s, p) :
     IF q = Len(s) + 1 THEN cnt + 1 >= 1
     ELSE s[q] = " " /\ HeaderFromStar(s, q + 1, cnt + 1)

\* a day pattern whose repetition is * instead of +
IsDayHeaderStar(line) == line # <<>> /\ HeaderFromStar(line, 1, 0)

RECURSIVE HeaderFrom(_, _, _)
HeaderFrom(s, p, cnt) ==
  \E q \in DayTokEnds(s, p) :
     IF q = Len(s) + 1 THEN cnt + 1 >= 2
     ELSE s[q] = " " /\ HeaderFrom(s, q + 1, cnt + 1)

\* re.fullmatch(r"(?:[1-9]|[12]\d|3[01])( (?:[1-9]|[12]\d|3[01]))+", line)
IsDayHeader(line) == line # <<>> /\ HeaderFrom(line, 1, 0)

Colons == {":", "FWCOLON"}

Seps == {"~", "WAVEDASH", "-", "CHOON", "FWHYPHEN"}

\* (\d{1,2}[:：]\d{2}) at position p of s: the positions right after a match
ClockEnds(s, p) ==
  {p + h + 3 : h \in {g \in {1, 2} :
     /\ p + g + 2 <= Len(s)
     /\ \A k \in 0..(g - 1) : IsDigit(s[p + k])
     /\ s[p + g] \in Colons
     /\ IsDigit(s[p + g + 1])
     /\ IsDigit(s[p + g + 2])}}

\* m.group(k).replace("：", ":")
ReplaceColon(s) == [k \in 1..Len(s) |-> IF s[k] = "FWCOLON" THEN ":" ELSE s[k]]

NoMatch == [ok |-> FALSE, start |-> <<>>, end |-> <<>>, stop |-> 0]

\* the match of the time-range pattern at the start of tok, if any;
\* stop is the position right after the match
TimeRange(tok) ==
  LET e1s == ClockEnds(tok, 1)
  IN  IF e1s = {} THEN NoMatch
      ELSE LET e1 == CHOOSE e \in e1s : TRUE
           IN  IF e1 > Len(tok) \/ tok[e1] \notin Seps THEN NoMatch
               ELSE LET e2s == ClockEnds(tok, e1 + 1)
                    IN  IF e2s = {} THEN NoMatch
                        ELSE LET e2 == CHOOSE e \in e2s : TRUE
                             IN  [ok |-> TRUE,
                                  start |-> ReplaceColon(SubSeq(tok, 1, e1 - 1)),
                                  end |-> ReplaceColon(SubSeq(tok, e1 + 1, e2 - 1)),
                                  stop |-> e2]

\* the time-range pattern applied with fullmatch instead of match
TimeFullMatch(tok) ==
  IF TimeRange(tok).ok /\ TimeRange(tok).stop = Len(tok) + 1 THEN TimeRange(tok) ELSE NoMatch

\* re.match(r"(\d{1,2}[:：]\d{2})[~〜\-ー－](\d{1,2}[:：]\d{2})", times[idx])
TimeMatch(tok) == TimeRange(tok)

\* names[idx] == target_name, with the target name normalized first
NameEqNormalized(tok, target_name) == tok = normalize(target_name)

\* names[idx] == target_name
NameEq(tok, target_name) == tok = target_name

Min2(a, b) == IF a <= b THEN a ELSE b

\* range(n - 1) in place of range(n)
MinColsShort(days, names, times) == Min2(Len(days), Min2(Len(names), Len(times))) - 1

\* n = min(len(days), len(names), len(times))
MinCols(days, names, times) == Min2(Len(days), Min2(Len(names), Len(times)))


\* i < len(lines) in place of i < len(lines) - 2
LoopGuardNoLookahead(i, n) == i < n

\* while i < len(lines) - 2
LoopGuard(i, n) == i < n - 2

\* i += 1 after a block
AfterBlockByOne(i) == i + 1

\* i += 3
AfterBlock(i) == i + 3

\* i += 2 after a line that is no day header
AfterSkipByTwo(i) == i + 2

\* i += 1
AfterSkip(i) == i + 1

NoRecs == [recs |-> <<>>, err |-> FALSE]

IndexError == [recs |-> <<>>, err |-> TRUE]

\* the column loop leaving the block at the first malformed time cell
RECURSIVE BlockLoopBreak(_, _, _, _, _, _)
BlockLoopBreak(days, names, times, target_name, n, idx) ==
  IF idx >= n THEN NoRecs
  ELSE IF idx >= Len(names) THEN IndexError
  ELSE IF NameEq(names[idx + 1], target_name)
       THEN IF idx >= Len(times) THEN IndexError
            ELSE IF TimeMatch(times[idx + 1]).ok
                 THEN IF idx >= Len(days) THEN IndexError
                      ELSE LET m == TimeMatch(times[idx + 1])
                               rest == BlockLoopBreak(days, names, times, target_name, n, idx + 1)
                           IN  [recs |-> <<(<<days[idx + 1], m.start, m.end>>)>> \o rest.recs,
                                err |-> rest.err]
                 ELSE NoRecs
       ELSE BlockLoopBreak(days, names, times, target_name, n, idx + 1)

\* for idx in range(n): ... results.append((days[idx], start, end)), from column
\* idx on; err is the IndexError of a subscript outside its list
RECURSIVE BlockLoop(_, _, _, _, _, _)
BlockLoop(days, names, times, target_name, n, idx) ==
  IF idx >= n THEN NoRecs
  ELSE IF idx >= Len(names) THEN IndexError
  ELSE LET rest == BlockLoop(days, names, times, target_name, n, idx + 1)
       IN  IF NameEq(names[idx + 1], target_name)
           THEN IF idx >= Len(times) THEN IndexError
                ELSE IF TimeMatch(times[idx + 1]).ok
                     THEN IF idx >= Len(days) THEN IndexError
                          ELSE LET m == TimeMatch(times[idx + 1])
                               IN  [recs |-> <<(<<days[idx + 1], m.start, m.end>>)>> \o rest.recs,
                                    err |-> rest.err]
                     ELSE rest
           ELSE rest

\* days = [int(x) for x in lines[i].split()]
DaysOf(line) == [k \in 1..Len(Split(line)) |-> ToInt(Split(line)[k])]

\* the body of the if-branch for the block of rows header, namesRow, timesRow
BlockRecords(header, namesRow, timesRow, target_name) ==
  LET days == DaysOf(header)
      names == Split(namesRow)
      times == Split(timesRow)
  IN  BlockLoop(days, names, times, target_name, MinCols(days, names, times), 0)

\* the de-duplication loop without the duplicate test
UniqKeepAll(results) == results

\* uniq, seen = [], set(); for d,s,e in results: if (d,s,e) not in seen: ...
RECURSIVE UniqFrom(_, _, _)
UniqFrom(results, k, seen) ==
  IF k > Len(results) THEN <<>>
  ELSE IF results[k] \notin seen
       THEN <<results[k]>> \o UniqFrom(results, k + 1, seen \cup {results[k]})
       ELSE UniqFrom(results, k + 1, seen)

Uniq(results) == UniqFrom(results, 1, {})

\* rows written in the order given
SortByDayNone(rows) == rows

\* insertion of r after the last row whose day is <= r's day
RECURSIVE InsertByDay(_, _)
InsertByDay(sortedRows, r) ==
  IF sortedRows = <<>> THEN <<r>>
  ELSE IF sortedRows[Len(sortedRows)][1] <= r[1] THEN Append(sortedRows, r)
       ELSE Append(InsertByDay(SubSeq(sortedRows, 1, Len(sortedRows) - 1), r),
                   sortedRows[Len(sortedRows)])

RECURSIVE SortFrom(_, _)
SortFrom(rows, k) ==
  IF k = 0 THEN <<>> ELSE InsertByDay(SortFrom(rows, k - 1), rows[k])

\* sorted(rows, key=lambda x: x[0]): stable, ascending in day
SortByDay(rows) == SortFrom(rows, Len(rows))

DigitChar == <<"0", "1", "2", "3", "4", "5", "6", "7", "8", "9">>

\* f"{d:02d}", the day field of Start Date
Pad2(d) == <<DigitChar[(d \div 10) + 1], DigitChar[(d % 10) + 1]>>

\* the data rows written: Start Date (its day field; Subject, year and month
\* are the same in every row) and Start Time
CsvRows(rows) ==
  LET sortedRows == SortByDay(rows)
  IN  [k \in 1..Len(sortedRows) |-> <<Pad2(sortedRows[k][1]), sortedRows[k][2]>>]


(***************************************************************************)
(* Inputs.                                                                 *)
(***************************************************************************)
Yamagata == <<"yama", "gata">>

Tanaka == <<"ta", "naka">>

Mari == <<"ma", "ri", "CHOON">>

Targets == {Yamagata, Mari}

\* tokens joined by sep
RECURSIVE Join(_, _)
Join(toks, sep) ==
  IF toks = <<>> THEN <<>>
  ELSE IF Len(toks) = 1 THEN toks[1]
  ELSE toks[1] \o sep \o Join(Tail(toks), sep)

Sp == <<" ">>

\* "1 2 3" / "山縣 田中 山縣" / "09:00～17:00 08:00-16:00 13:00-21:00"
BlockEndToEnd ==
  << <<"1", " ", "2", " ", "3">>,
     Join(<<Yamagata, Tanaka, Yamagata>>, Sp),
     Join(<< <<"0", "9", ":", "0", "0", "FWTILDE", "1", "7", ":", "0", "0">>,
             <<"0", "8", ":", "0", "0", "-", "1", "6", ":", "0", "0">>,
             <<"1", "3", ":", "0", "0", "-", "2", "1", ":", "0", "0">> >>, Sp) >>

\* "1 2 3" / "田中 山縣" / "09:00-17:00 10:00-18:00 11:00-19:00"
BlockRagged ==
  << <<"1", " ", "2", " ", "3">>,
     Join(<<Tanaka, Yamagata>>, Sp),
     Join(<< <<"0", "9", ":", "0", "0", "-", "1", "7", ":", "0", "0">>,
             <<"1", "0", ":", "0", "0", "-", "1", "8", ":", "0", "0">>,
             <<"1", "1", ":", "0", "0", "-", "1", "9", ":", "0", "0">> >>, Sp) >>

\* "1 2" / "山縣 山縣" / "bad 09:00~17:00"
BlockBadCell ==
  << <<"1", " ", "2">>,
     Join(<<Yamagata, Yamagata>>, Sp),
     Join(<< <<"b", "a", "d">>,
             <<"0", "9", ":", "0", "0", "~", "1", "7", ":", "0", "0">> >>, Sp) >>

\* "6 7" / "山縣 山縣" / "09:00-17:00x 9:0-17:00"
BlockLate ==
  << <<"6", " ", "7">>,
     Join(<<Yamagata, Yamagata>>, Sp),
     Join(<< <<"0", "9", ":", "0", "0", "-", "1", "7", ":", "0", "0", "x">>,
             <<"9", ":", "0", "-", "1", "7", ":", "0", "0">> >>, Sp) >>

\* "３１　２<TAB> 10" / "マリー　山縣 山縣" / " 9：00ー17：00 9:00〜17:000"
BlockWide ==
  << <<"FW3", "FW1", "IDSP", "FW2", "TAB", " ", "1", "0">>,
     Join(<<Mari, Yamagata, Yamagata>>, <<"IDSP">>),
     <<" ">> \o
     Join(<< <<"9", "FWCOLON", "0", "0", "CHOON", "1", "7", "FWCOLON", "0", "0">>,
             <<"9", ":", "0", "0", "WAVEDASH", "1", "7", ":", "0", "0", "0">> >>, Sp) >>

BlockSet == {BlockEndToEnd, BlockRagged, BlockBadCell, BlockLate, BlockWide}

\* "x 1 2"
NoiseTitle == << <<"x", " ", "1", " ", "2">> >>

\* "5"
NoiseFive == << <<"5">> >>

\* "1 2"
NoiseDays == << <<"1", " ", "2">> >>

\* "7 32"
NoiseBadDays == << <<"7", " ", "3", "2">> >>

\* a line of whitespace only
NoiseBlank == << <<"IDSP", " ">> >>

\* "山縣"
NoiseName == << Yamagata >>

\* "09:00-17:00"
NoiseTime == << <<"0", "9", ":", "0", "0", "-", "1", "7", ":", "0", "0">> >>

NoiseSet == {NoiseTitle, NoiseFive, NoiseDays, NoiseBadDays, NoiseBlank, NoiseName, NoiseTime}

SegSet == BlockSet \cup NoiseSet

\* number of segments (blocks or single lines) a text is assembled from
MaxSegs == 3

\* length of the strings normalize is applied to
MaxStrLen == 4

NormAlphabet == {"1", "FW1", "CHOON", "FWCOLON", "IDSP", " ", "TAB", "x"}

RECURSIVE Flatten(_)
Flatten(ss) == IF ss = <<>> THEN <<>> ELSE Head(ss) \o Flatten(Tail(ss))

\* the text whose lines are the lines of the segments, joined by NL
TextOf(ss) == Join(Flatten(ss), <<"NL">>)

SeqsUpTo(S, n) == UNION {[1..k -> S] : k \in 0..n}

VARIABLES
  pc,           \* position in main / in the normalize round trip
  segs,         \* how text was assembled: 3-line blocks and single lines
  text,         \* the text read by main
  target_name,  \* args.name
  lines,        \* parse_shifts_from_text: lines
  i,            \* parse_shifts_from_text: i
  results,      \* parse_shifts_from_text: results
  tested,       \* the values of i whose line was tested against the day pattern
  blocks,       \* the values of i whose line matched the day pattern
  uniq,         \* the value returned by parse_shifts_from_text (rows in main)
  warned,       \* main printed the 0-rows warning
  csv,          \* the data rows written by write_gcal_min_csv
  s,            \* normalize: the argument
  once,         \* normalize(s)
  twice         \* normalize(normalize(s))

vars == <<pc, segs, text, target_name, lines, i, results, tested, blocks, uniq, warned, csv,
          s, once, twice>>

parseVars == <<lines, i, results, tested, blocks, uniq>>

normVars == <<s, once, twice>>

Init ==
  /\ pc = "main"
  /\ segs \in SeqsUpTo(SegSet, MaxSegs)
  /\ text = TextOf(segs)
  /\ target_name \in Targets
  /\ lines = <<>>
  /\ i = 0
  /\ results = <<>>
  /\ tested = {}
  /\ blocks = {}
  /\ uniq = <<>>
  /\ warned = FALSE
  /\ csv = <<>>
  /\ s = <<>>
  /\ once = <<>>
  /\ twice = <<>>

\* not text.strip(): NL is whitespace too
IsBlankText(t) == \A k \in 1..Len(t) : IsSpace(t[k]) \/ t[k] = "NL"

\* main: if not text.strip(): raise SystemExit(...)
MainNoText ==
  /\ pc = "main"
  /\ IsBlankText(text)
  /\ pc' = "exit"
  /\ UNCHANGED <<segs, text, target_name, parseVars, warned, csv, normVars>>

\* main: rows = parse_shifts_from_text(text, args.name); the list of lines
ParseStart ==
  /\ pc = "main"
  /\ ~IsBlankText(text)
  /\ lines' = NormalizedLines(text)
  /\ results' = <<>>
  /\ i' = 0
  /\ pc' = "scan"
  /\ UNCHANGED <<segs, text, target_name, tested, blocks, uniq, warned, csv, normVars>>

\* one turn of the while loop, line i matches the day pattern
ScanBlock ==
  /\ pc = "scan"
  /\ LoopGuard(i, Len(lines))
  /\ IsDayHeader(lines[i + 1])
  /\ tested' = tested \cup {i}
  /\ IF i + 2 >= Len(lines)
     THEN /\ pc' = "raised"
          /\ UNCHANGED <<i, results, blocks>>
     ELSE LET out == BlockRecords(lines[i + 1], lines[i + 2], lines[i + 3], target_name)
          IN  IF out.err
              THEN /\ pc' = "raised"
                   /\ UNCHANGED <<i, results, blocks>>
              ELSE /\ results' = results \o out.recs
                   /\ i' = AfterBlock(i)
                   /\ blocks' = blocks \cup {i}
                   /\ pc' = "scan"
  /\ UNCHANGED <<segs, text, target_name, lines, uniq, warned, csv, normVars>>

\* one turn of the while loop, line i does not match the day pattern
ScanSkip ==
  /\ pc = "scan"
  /\ LoopGuard(i, Len(lines))
  /\ ~IsDayHeader(lines[i + 1])
  /\ tested' = tested \cup {i}
  /\ i' = AfterSkip(i)
  /\ UNCHANGED <<pc, segs, text, target_name, lines, results, blocks, uniq, warned, csv, normVars>>

\* the loop is left; de-duplication; return uniq; main: if not rows: print(warning)
ParseReturn ==
  /\ pc = "scan"
  /\ ~LoopGuard(i, Len(lines))
  /\ uniq' = Uniq(results)
  /\ warned' = (Uniq(results) = <<>>)
  /\ pc' = "returned"
  /\ UNCHANGED <<segs, text, target_name, lines, i, results, tested, blocks, csv, normVars>>

\* main: write_gcal_min_csv(rows, ...)
WriteCsv ==
  /\ pc = "returned"
  /\ csv' = CsvRows(uniq)
  /\ pc' = "written"
  /\ UNCHANGED <<segs, text, target_name, parseVars, warned, normVars>>

Next ==
  \/ MainNoText
  \/ ParseStart
  \/ ScanBlock
  \/ ScanSkip
  \/ ParseReturn
  \/ WriteCsv

Spec == Init /\ [][Next]_vars

(***************************************************************************)
(* normalize applied to every string over NormAlphabet, twice.             *)
(***************************************************************************)
InitNorm ==
  /\ pc = "norm0"
  /\ s \in SeqsUpTo(NormAlphabet, MaxStrLen)
  /\ once = <<>>
  /\ twice = <<>>
  /\ segs = <<>>
  /\ text = <<>>
  /\ target_name = <<>>
  /\ lines = <<>>
  /\ i = 0
  /\ results = <<>>
  /\ tested = {}
  /\ blocks = {}
  /\ uniq = <<>>
  /\ warned = FALSE
  /\ csv = <<>>

NormalizeOnce ==
  /\ pc = "norm0"
  /\ once' = normalize(s)
  /\ pc' = "norm1"
  /\ UNCHANGED <<segs, text, target_name, parseVars, warned, csv, s, twice>>

NormalizeTwice ==
  /\ pc = "norm1"
  /\ twice' = normalize(once)
  /\ pc' = "norm2"
  /\ UNCHANGED <<segs, text, target_name, parseVars, warned, csv, s, once>>

NextNorm == NormalizeOnce \/ NormalizeTwice

SpecNorm == InitNorm /\ [][NextNorm]_vars


(***************************************************************************)
(* Properties.                                                             *)
(***************************************************************************)
Range(q) == {q[k] : k \in DOMAIN q}

\* the elements of a finite set of integers in ascending order
Ascending(S) ==
  [n \in 1..Cardinality(S) |-> CHOOSE k \in S : Cardinality({j \in S : j <= k}) = n]

NoDuplicates(q) == \A k, l \in DOMAIN q : k # l => q[k] # q[l]

NonDecreasing(q) == \A k \in 1..(Len(q) - 1) : q[k] <= q[k + 1]

Returned == pc \in {"returned", "written"}

\* the rows of the block recognized at cursor b
DayToksAt(b) == Split(lines[b + 1])

NamesAt(b) == Split(lines[b + 2])

TimesAt(b) == Split(lines[b + 3])

\* the number of columns of the block at cursor b that all three rows have
ColsAt(b) == Min2(Len(DayToksAt(b)), Min2(Len(NamesAt(b)), Len(TimesAt(b))))

\* the current turn of the loop is one that finds a day header at line i
AtBlock == pc = "scan" /\ i < Len(lines) - 2 /\ IsDayHeader(lines[i + 1])

\* the records appended to results by the step
NewRecs == SubSeq(results', Len(results) + 1, Len(results'))

\* a token is written as an integer of 1..31 without leading zero
IsDayToken(tok) ==
  /\ Len(tok) \in {1, 2}
  /\ \A k \in 1..Len(tok) : tok[k] \in Digits
  /\ tok[1] # "0"
  /\ ToInt(tok) \in 1..31

\* H:MM or HH:MM in ASCII
IsClock(str) ==
  /\ Len(str) \in {4, 5}
  /\ \A k \in 1..Len(str) : IF k = Len(str) - 2 THEN str[k] = ":" ELSE str[k] \in Digits

\* the <<start, end>> pairs such that tok begins with start, '~' or '-', end
RangePrefixes(tok) ==
  {<<SubSeq(tok, 1, la), SubSeq(tok, la + 2, la + 1 + lb)>> :
     <<la, lb>> \in {q \in {4, 5} \X {4, 5} :
        /\ q[1] + 1 + q[2] <= Len(tok)
        /\ IsClock(SubSeq(tok, 1, q[1]))
        /\ tok[q[1] + 1] \in {"~", "-"}
        /\ IsClock(SubSeq(tok, q[1] + 2, q[1] + 1 + q[2]))}}

NormalizedSeg(seg) == [k \in 1..Len(seg) |-> normalize(seg[k])]

(* ------------------------------- C1 -------------------------------- *)
\* the day of a written row, read back from its Start Date
CsvDay(row) == ToInt(row[1])

Count(q, x) == Cardinality({k \in DOMAIN q : q[k] = x})

\* C1 as stated: the sequence returned by the parser is non-decreasing in day.
C1_ParserSorted == Returned => NonDecreasing([k \in 1..Len(uniq) |-> uniq[k][1]])

\* C1 (amended): the parser returns the records in scan order; the rows
\* written by write_gcal_min_csv are exactly the returned records, one row
\* each, and are non-decreasing in day.
C1_WrittenSorted ==
  pc = "written" =>
    /\ Len(csv) = Len(uniq)
    /\ NonDecreasing([k \in 1..Len(csv) |-> CsvDay(csv[k])])
    /\ \A k \in 1..Len(uniq) :
         LET row == <<Pad2(uniq[k][1]), uniq[k][2]>>
         IN  Count(csv, row) =
               Cardinality({l \in 1..Len(uniq) : <<Pad2(uniq[l][1]), uniq[l][2]>> = row})

C1_Witness ==
  /\ pc = "written"
  /\ \E k \in 1..(Len(uniq) - 1) : uniq[k][1] > uniq[k + 1][1]
  /\ Cardinality(blocks) >= 2

(* ------------------------------- C2 -------------------------------- *)
\* lines 0..2 are a single day token, a names row that starts with the
\* target name and a times row that starts with a valid time range
SingleDayBlockAtTop ==
  /\ Len(lines) >= 3
  /\ IsDayToken(lines[1])
  /\ Split(lines[2])[1] = target_name
  /\ RangePrefixes(Split(lines[3])[1]) # {}

IsBlockSeg(seg) == Len(seg) = 3

\* the records of the blocks the text was assembled from, block by block
RecordsOfBlocks ==
  LET bs == SelectSeq(segs, IsBlockSeg)
  IN  Flatten([k \in 1..Len(bs) |->
        BlockRecords(normalize(bs[k][1]), normalize(bs[k][2]), normalize(bs[k][3]),
                     target_name).recs])

\* every block segment is a day header and two non-blank lines
BlocksValid ==
  \A k \in 1..Len(segs) : IsBlockSeg(segs[k]) =>
     /\ IsDayHeader(normalize(segs[k][1]))
     /\ normalize(segs[k][2]) # <<>>
     /\ normalize(segs[k][3]) # <<>>

NoiseNonBlank ==
  \A k \in 1..Len(segs) : ~IsBlockSeg(segs[k]) => normalize(segs[k][1]) # <<>>

NoiseNoHeader ==
  \A k \in 1..Len(segs) : ~IsBlockSeg(segs[k]) => ~IsDayHeader(normalize(segs[k][1]))

\* C3 as stated: non-blank lines inserted before, between or after the blocks,
\* whatever they are, leave the set of records unchanged.
C3_AnyNoise ==
  (pc = "returned" /\ BlocksValid /\ NoiseNonBlank) => Range(uniq) = Range(RecordsOfBlocks)

\* C3 (amended): non-blank lines inserted before, between or after the blocks
\* leave the set of records unchanged provided no inserted line is itself a
\* day header (two or more space-separated integers of 1..31).
C3_NonHeaderNoise ==
  (pc = "returned" /\ BlocksValid /\ NoiseNonBlank /\ NoiseNoHeader) =>
     Range(uniq) = Range(RecordsOfBlocks)

C3_Witness ==
  /\ pc = "returned"
  /\ NoiseNonBlank /\ NoiseNoHeader
  /\ Len(segs) = 3
  /\ IsBlockSeg(segs[1]) /\ ~IsBlockSeg(segs[2]) /\ IsBlockSeg(segs[3])
  /\ segs[1] # segs[3]
  /\ Cardinality(blocks) = 2
  /\ Len(uniq) >= 3

(* ------------------------------- C4 -------------------------------- *)
\* q without every later occurrence of an element already seen
FirstOccurrences(q) ==
  LET keep == {k \in DOMAIN q : \A j \in 1..(k - 1) : q[j] # q[k]}
      idx == Ascending(keep)
  IN  [n \in 1..Len(idx) |-> q[idx[n]]]

\* C4: the returned sequence has no two equal (day, start, end) triples, is
\* the raw matches with later occurrences removed, and is as long as the raw
\* matches exactly when these have no duplicate.
C4_Dedup ==
  Returned =>
    /\ NoDuplicates(uniq)
    /\ uniq = FirstOccurrences(results)
    /\ Len(uniq) <= Len(results)
    /\ (Len(uniq) = Len(results)) <=> NoDuplicates(results)

C4_Witness ==
  /\ pc = "returned"
  /\ Len(uniq) >= 2
  /\ Len(uniq) < Len(results)


(* ------------------------------- C5 -------------------------------- *)
Max2(a, b) == IF a >= b THEN a ELSE b

\* the rows of the block at cursor b do not all have the same token count
Ragged(b) ==
  ~(Len(DayToksAt(b)) = Len(NamesAt(b)) /\ Len(NamesAt(b)) = Len(TimesAt(b)))

\* the column indices, among those of the longest row, that all three rows
\* have, that name the target and that hold a time range
C5_Cols(b) ==
  {idx \in 0..(Max2(Len(DayToksAt(b)), Max2(Len(NamesAt(b)), Len(TimesAt(b)))) - 1) :
     /\ idx < Len(DayToksAt(b)) /\ idx < Len(NamesAt(b)) /\ idx < Len(TimesAt(b))
     /\ NamesAt(b)[idx + 1] = target_name
     /\ TimeMatch(TimesAt(b)[idx + 1]).ok}

\* C5: a block whose rows have different token counts raises no error and
\* gives the records of exactly the target columns below the shortest row's
\* count, in column order; header "1 2 3", names "田中 山縣", three times and
\* target 山縣 give exactly (2, "10:00", "18:00").
C5_Truncation ==
  [][(AtBlock /\ Ragged(i)) =>
       /\ pc' = "scan"
       /\ Len(NewRecs) = Cardinality(C5_Cols(i))
       /\ \A n \in 1..Len(NewRecs) :
            LET idx == Ascending(C5_Cols(i))[n]
            IN  /\ idx < ColsAt(i)
                /\ NewRecs[n][1] = ToInt(DayToksAt(i)[idx + 1])
                /\ <<NewRecs[n][2], NewRecs[n][3]>> \in RangePrefixes(TimesAt(i)[idx + 1])
       /\ (/\ <<lines[i + 1], lines[i + 2], lines[i + 3]>> = NormalizedSeg(BlockRagged)
           /\ target_name = Yamagata)
            => NewRecs = << <<2, <<"1", "0", ":", "0", "0">>, <<"1", "8", ":", "0", "0">> >> >>
    ]_vars

C5_Witness ==
  /\ pc = "scan"
  /\ target_name = Yamagata
  /\ \E b \in blocks :
       /\ i = b + 3
       /\ Ragged(b)
       /\ Len(NamesAt(b)) < Len(DayToksAt(b))
       /\ NamesAt(b)[Len(NamesAt(b))] = target_name
  /\ results # <<>>

(* ------------------------------- C6 -------------------------------- *)
\* the target columns of the block at cursor b, by whether the time cell holds
\* a time range
TargetCols(b) == {idx \in 0..(ColsAt(b) - 1) : NamesAt(b)[idx + 1] = target_name}

GoodCols(b) == {idx \in TargetCols(b) : TimeMatch(TimesAt(b)[idx + 1]).ok}

BadCols(b) == TargetCols(b) \ GoodCols(b)

\* C6: a malformed time cell of a target column gives no record and no
\* error and does not end the block: the other target columns, before and
\* after it, give their records, and the cursor moves past the block; header
\* "1 2", names "山縣 山縣", times "bad 09:00~17:00" give exactly
\* (2, "09:00", "17:00").
C6_MalformedCell ==
  [][(AtBlock /\ BadCols(i) # {}) =>
       /\ pc' = "scan"
       /\ i' = i + 3
       /\ Len(NewRecs) = Cardinality(GoodCols(i))
       /\ \A idx \in GoodCols(i) :
            \E r \in Range(NewRecs) : r[1] = ToInt(DayToksAt(i)[idx + 1])
       /\ \A idx \in BadCols(i) :
            (\A g \in GoodCols(i) : DayToksAt(i)[g + 1] # DayToksAt(i)[idx + 1])
              => \A r \in Range(NewRecs) : r[1] # ToInt(DayToksAt(i)[idx + 1])
       /\ (/\ <<lines[i + 1], lines[i + 2], lines[i + 3]>> = NormalizedSeg(BlockBadCell)
           /\ target_name = Yamagata)
            => NewRecs = << <<2, <<"0", "9", ":", "0", "0">>, <<"1", "7", ":", "0", "0">> >> >>
    ]_vars

C6_Witness ==
  /\ pc = "scan"
  /\ \E b \in blocks :
       /\ i = b + 3
       /\ \E bad \in BadCols(b) : \E good \in GoodCols(b) : bad < good
  /\ \E b \in blocks : \E bad \in BadCols(b) : \E good \in GoodCols(b) : good < bad
  /\ Len(results) >= 2

(* ------------------------------- C7 -------------------------------- *)
\* C7: every record comes from a column of a recognized block whose names
\* token is equal to target_name as given, its day is the header token of that
\* column and lies in 1..31; when no names token of a recognized block equals
\* target_name the result is empty, and nothing is raised.
C7_ExactName ==
  /\ pc # "raised"
  /\ \A r \in Range(results) \cup Range(uniq) :
       /\ r[1] \in 1..31
       /\ \E b \in blocks : \E idx \in 0..(ColsAt(b) - 1) :
            /\ NamesAt(b)[idx + 1] = target_name
            /\ ToInt(DayToksAt(b)[idx + 1]) = r[1]
  /\ (\A b \in blocks : target_name \notin Range(NamesAt(b)))
       => (results = <<>> /\ uniq = <<>>)

C7_Witness ==
  /\ pc = "returned"
  /\ target_name = Mari
  /\ \E b \in blocks :
       /\ normalize(Mari) \in Range(NamesAt(b))
       /\ Len(TimesAt(b)) >= 1
       /\ TimeMatch(TimesAt(b)[1]).ok
  /\ uniq = <<>>
  /\ warned

(* ------------------------------- C8 -------------------------------- *)
\* no character of the translation table, no whitespace but single spaces
\* between other characters
IsClean(str) ==
  /\ \A k \in 1..Len(str) : str[k] \notin DOMAIN Z2H_TABLE
  /\ \A k \in 1..Len(str) : IsSpace(str[k]) => str[k] = " "
  /\ \A k \in 1..Len(str) : str[k] = " " => (k > 1 /\ k < Len(str) /\ str[k + 1] # " ")

\* C8: normalize(normalize(s)) = normalize(s), and normalize(s) has no
\* character of the translation table, no whitespace other than single spaces
\* between non-space characters and none at either end.
C8_Idempotent ==
  /\ pc \in {"norm1", "norm2"} => IsClean(once)
  /\ pc = "norm2" => twice = once

C8_Witness ==
  /\ pc = "norm2"
  /\ Len(once) = 3
  /\ Len(s) = 4
  /\ once[2] = " "
  /\ s[2] = "IDSP"
  /\ \E k \in 1..Len(s) : s[k] = "CHOON"

(* ------------------------------- C9 -------------------------------- *)
\* the line indices read by the scan so far
ReadSoFar == tested \cup UNION {{b + 1, b + 2} : b \in blocks}

\* C9: the cursor starts at 0, a turn is taken only while i <= length-3, a
\* turn adds 3 at a day header and 1 otherwise, the scan ends (each turn
\* brings i closer to the length, and a turn is taken only while i is more
\* than 2 away from it), no line index >= length is read, blocks do not overlap and no names or times row of a
\* block is tested as a day header.
C9_Cursor ==
  [][/\ (pc = "main" /\ pc' = "scan") => i' = 0
     /\ (pc = "scan" /\ pc' = "scan") =>
           /\ i <= Len(lines) - 3
           /\ i' = IF IsDayHeader(lines[i + 1]) THEN i + 3 ELSE i + 1
           /\ Len(lines) - i' < Len(lines) - i
     /\ (pc = "scan" /\ pc' = "returned") => (i > Len(lines) - 3 /\ i' = i)
     /\ pc' # "raised"
     /\ ReadSoFar' \subseteq 0..(Len(lines') - 1)
     /\ \A b, c \in blocks' : b # c => (b + 3 <= c \/ c + 3 <= b)
     /\ \A b \in blocks' : b + 1 \notin tested' /\ b + 2 \notin tested'
    ]_vars

C9_Witness ==
  /\ pc = "returned"
  /\ tested # blocks
  /\ \E b \in blocks : IsDayHeader(lines[b + 2]) /\ Len(lines) > b + 3

(* ------------------------------- C10 ------------------------------- *)
\* the target columns of the block at cursor b whose time token begins with a
\* time range
PrefixCols(b) == {idx \in TargetCols(b) : RangePrefixes(TimesAt(b)[idx + 1]) # {}}

\* C10: the time pattern is anchored at the start of the token only: a target
\* column gives a record exactly when its time token begins with a time
\* range, whatever follows it, and start and end are the two clock times of
\* that prefix.
C10_PrefixMatch ==
  [][AtBlock =>
       /\ Len(NewRecs) = Cardinality(PrefixCols(i))
       /\ \A n \in 1..Len(NewRecs) :
            LET idx == Ascending(PrefixCols(i))[n]
            IN  /\ NewRecs[n][1] = ToInt(DayToksAt(i)[idx + 1])
                /\ RangePrefixes(TimesAt(i)[idx + 1]) = {<<NewRecs[n][2], NewRecs[n][3]>>}
    ]_vars

C10_Witness ==
  /\ pc = "scan"
  /\ \E b \in blocks :
       /\ i = b + 3
       /\ \E idx \in PrefixCols(b) :
            LET tok == TimesAt(b)[idx + 1]
            IN  /\ tok[Len(tok)] = "x"
                /\ <<ToInt(DayToksAt(b)[idx + 1]), SubSeq(tok, 1, 5), SubSeq(tok, 7, 11)>>
                     \in Range(results)

====
